---- MODULE Spec2Model ----
(***************************************************************************)
(* State-machine model of delta/pipeline.py: one Position with its ROIs,   *)
(* driven through Pipeline.process, Position.segment, Position.track and   *)
(* the ROI-level segmentation calls.                                       *)
(*                                                                         *)
(* Conventions.  Frame numbers are 0-based as in the code; TLA+ sequences  *)
(* are 1-based, so slot f of a Python list is element f+1 of the sequence. *)
(* Old-cell and new-cell indices (o, n) are kept 1-based in the model.     *)
(* An image is abstracted to the number of the frame it was cropped from,  *)
(* a mask to the number of the frame it was computed from; the number of   *)
(* connected components of a mask is read from the movie.                  *)
(***************************************************************************)
EXTENDS Integers, Sequences, FiniteSets, TLC

\* ---------------------------------------------------------------- bounds
MaxFrame == 1        \* frames of the movie are 0..MaxFrame
MaxCells == 2        \* at most MaxCells connected components per mask
NumROIs == 2         \* boxes found by detect_rois on the reference image
MaxLen == 2          \* longest frames list passed to an operation
MaxCalls == 2        \* top-level operations started in one behaviour
MaxTrackLen == 3     \* longest frames list of a track call in SpecTrack
MaxTracks == 1       \* track calls in one behaviour of SpecTrack
MaxCellsPersist == 1 \* cells of a mask in SpecPersist
MaxSide == 4         \* region images are up to MaxSide x MaxSide pixels
MaxTile == 3         \* cfg.target_size_seg is up to MaxTile x MaxTile
MaxPositions == 3    \* reader.positions of the experiment given to Pipeline.preprocess

None == -1           \* Python's None (placeholder mask, orphan's parent)

Frames == 0..MaxFrame
Scores == {1, 5, 9}  \* tracking scores in tenths (0.1, 0.5, 0.9)
Tau == 5             \* tau = 0.5, in tenths

\* the frames lists passed to Position.track
FrameLists == UNION {[1..k -> Frames] : k \in 1..MaxLen}
TrackLists == UNION {[1..k -> Frames] : k \in 1..MaxTrackLen}
\* the frames lists passed to Position.segment and Pipeline.process name
\* each frame once
SegLists == {F \in FrameLists : \A i, j \in DOMAIN F : F[i] = F[j] => i = j}

VARIABLES
    movie,          \* movie[b][f]: cells the segmentation finds in box b, frame f
    preprocessed,   \* Position._preprocessed: "False", "True" or "None"
    cleared,        \* TRUE once clear() has set the attributes to None
    rois,           \* Position.rois
    pc,             \* where the running operation stands
    stage,          \* stage of the running Pipeline.process, or "none"
    frames,         \* the frames argument of the running operation
    fi,             \* loop position in frames (Position.track)
    ri,             \* loop position in rois / references
    references,     \* Position.track's references list of the current frame
    err,            \* exception raised by the last operation, or "none"
    obs,            \* the last ROI-level call and what it returned
    trkLog,         \* <<roi, frame, kind>> of each get_tracking_inputs call of
                    \* the running track call
    stageLog,       \* stages the last Pipeline.process went through
    direct,         \* TRUE once a ROI was segmented by itself (RoiSegmentFrame)
    calls,          \* top-level operations started so far
    predictor,      \* the predictors return "exact"ly one output per input,
                    \* one "short" or one too "long"
    npositions,     \* reader.positions: positions of the experiment
    drift_values,   \* Position.drift_values: k-th entry is the translation
                    \* estimated for the frame it names
    saved,          \* the pickle file written by Position.save
    pickle_skip,    \* Position._pickle_skip
    extern,         \* Position.reader and Position.models
    plist,          \* positions argument of the running Pipeline.process
    pidx,           \* loop position in plist
    other,          \* results of the second position: "new" or "saved"
    snap,           \* the regions as the features stage of a process left them
    beforeClear,    \* the attributes as they were before the last clear
    npre,           \* Position.preprocess invocations so far
    tiling,         \* one region image being tiled and stitched back
    ppos            \* the last Pipeline.preprocess call: the positions to run
                    \* and those Position.preprocess was invoked on, in order

envVars == <<predictor, npositions>>
persistVars == <<drift_values, saved, pickle_skip, extern>>
pipeVars == <<plist, pidx, other>>
ghostVars == <<snap, beforeClear, npre>>
auxVars == <<tiling, ppos>>

vars == <<movie, preprocessed, cleared, rois, pc, stage, frames, fi, ri,
          references, err, obs, trkLog, stageLog, direct, calls, envVars,
          persistVars, pipeVars, ghostVars, auxVars>>

\* ------------------------------------------------------------- Lineage
\* utils.Lineage: cellnumbers is the per-frame sequence of live lists; an
\* entry is [id, parent, pole]: the cell's id, its parent's id at the
\* previous frame (None for an orphan) and the new cell it was created for.
\* values is the sparse attribute mapping: a sequence of
\* [cell, frame, name, value] with at most one entry per (cell, frame, name).
NewLineage == [cellnumbers |-> <<>>, ncells |-> 0, values |-> <<>>]

Entry(id, parent, n) == [id |-> id, parent |-> parent, pole |-> n]

RECURSIVE Blank(_)
Blank(k) == IF k <= 0 THEN <<>> ELSE Append(Blank(k - 1), <<>>)

\* the per-frame sequence grown with empty lists up to slot frame
Extend(lin, frame) ==
    [lin EXCEPT !.cellnumbers = @ \o Blank(frame + 1 - Len(@))]

registerOrphan(lin, frame, n) ==
    [lin EXCEPT !.cellnumbers[frame + 1] =
                    Append(@, Entry(lin.ncells + 1, None, n)),
                !.ncells = @ + 1]

RECURSIVE registerChildren(_, _, _, _, _)
registerChildren(lin, parentId, frame, childs, k) ==
    IF k > Len(childs) THEN lin
    ELSE registerChildren(
            [lin EXCEPT !.cellnumbers[frame + 1] =
                            Append(@, Entry(lin.ncells + 1, parentId, childs[k])),
                        !.ncells = @ + 1],
            parentId, frame, childs, k + 1)

registerAttribution(lin, parentId, frame, childs) ==
    IF Len(childs) = 1
    THEN [lin EXCEPT !.cellnumbers[frame + 1] =
                        Append(@, Entry(parentId, parentId, childs[1]))]
    ELSE registerChildren(lin, parentId, frame, childs, 1)

\* Lineage.update(cell, frame, attrib, poles); cell is None or the 1-based
\* index of an old cell in the live list of frame-1.  ok is FALSE when the
\* old-cell index names no entry of that list (IndexError).
update(lin, cell, frame, attrib) ==
    LET ext == Extend(lin, frame) IN
    IF Len(attrib) = 0 THEN [lin |-> ext, ok |-> TRUE]
    ELSE IF cell = None
    THEN [lin |-> registerOrphan(ext, frame, attrib[1]), ok |-> TRUE]
    ELSE IF frame = 0 \/ cell > Len(ext.cellnumbers[frame])
    THEN [lin |-> ext, ok |-> FALSE]
    ELSE [lin |-> registerAttribution(
                    ext, ext.cellnumbers[frame][cell].id, frame, attrib),
          ok |-> TRUE]

\* variant of setvalue that adds an entry on every write
setvalueAppend(lin, cell, frame, name, value) ==
    [lin EXCEPT !.values =
        Append(@, [cell |-> cell, frame |-> frame, name |-> name, value |-> value])]

\* Lineage.setvalue(cell, frame, feature, value): the value stored for
\* (cell, frame, feature) is overwritten, or added when there is none
setvalue(lin, cell, frame, name, value) ==
    LET hit == {i \in DOMAIN lin.values :
                  /\ lin.values[i].cell = cell
                  /\ lin.values[i].frame = frame
                  /\ lin.values[i].name = name}
    IN IF hit = {}
       THEN [lin EXCEPT !.values =
               Append(@, [cell |-> cell, frame |-> frame, name |-> name,
                          value |-> value])]
       ELSE [lin EXCEPT !.values =
               [i \in DOMAIN @ |-> IF i \in hit THEN [@[i] EXCEPT !.value = value]
                                   ELSE @[i]]]

\* --------------------------------------------------------------- helpers
\* variant of nonzero that keeps the first index only
nonzeroFirst(S) ==
    IF S = {} THEN <<>> ELSE <<CHOOSE x \in S : \A y \in S : x <= y>>

\* ascending sequence of the members of a set of numbers (nonzero()[0])
RECURSIVE nonzero(_)
nonzero(S) ==
    IF S = {} THEN <<>>
    ELSE LET m == CHOOSE x \in S : \A y \in S : x <= y
         IN <<m>> \o nonzero(S \ {m})

\* utils.getAttributions: A[o] is the set of new cells n with S[o][n] > tau
getAttributions(S) ==
    [o \in 1..Len(S) |-> {n \in 1..Len(S[o]) : S[o][n] > Tau}]

\* connected components of a mask of box b
NComp(b, mask) == movie[b][mask]

\* ------------------------------------------------------------------ ROI
NewROI(b) ==
    [roi_nb |-> b, img_stack |-> <<>>, seg_stack |-> <<>>,
     lineage |-> NewLineage, label_stack |-> <<>>]

\* ROI.get_segmentation_inputs(img): img is the image of frame f
get_segmentation_inputs(roi, f) ==
    [roi EXCEPT !.img_stack = Append(@, f)]

RECURSIVE Nones(_)
Nones(k) == IF k <= 0 THEN <<>> ELSE Append(Nones(k - 1), None)

\* variant of process_segmentation_outputs that always appends, as the
\* frame=None branch does
process_segmentation_outputs_append(roi, src, frame) ==
    [roi EXCEPT !.seg_stack = Append(@, src)]

\* ROI.process_segmentation_outputs(y, frame, windows): y is the mask
\* computed from the image of frame src
process_segmentation_outputs(roi, src, frame) ==
    LET ext == IF Len(roi.seg_stack) <= frame
               THEN roi.seg_stack \o Nones(frame + 1 - Len(roi.seg_stack))
               ELSE roi.seg_stack
    IN [roi EXCEPT !.seg_stack = [ext EXCEPT ![frame + 1] = src]]

\* the loop of get_tracking_inputs creating one orphan per pole, from c on
RECURSIVE Orphans(_, _, _, _)
Orphans(lin, frame, poles, c) ==
    IF c > poles THEN lin
    ELSE Orphans(update(lin, None, frame, <<c>>).lin, frame, poles, c + 1)

\* variant of NoPreviousCells with the length test off by one
NoPreviousCellsOffByOne(cn, frame) ==
    frame = 0 \/ Len(cn) <= frame \/ Len(cn[frame]) = 0

\* variant of OldCells that takes the contours of the current frame's mask
OldCellsFromCurrentMask(roi, frame) ==
    NComp(roi.roi_nb, roi.seg_stack[frame + 1])

\* "If no previous cells to track from": the first frame, no live list for
\* frame-1, or an empty one (cn is lineage.cellnumbers)
NoPreviousCells(cn, frame) ==
    frame = 0 \/ Len(cn) < frame \/ Len(cn[frame]) = 0

\* the contours of the previous frame's mask: the old cells to track from
OldCells(roi, frame) == NComp(roi.roi_nb, roi.seg_stack[frame])

\* ROI.get_tracking_inputs(frame).  kind is what the call did:
\*   "RuntimeError"  the 'Segmentation incomplete' check fired
\*   "HelperError"   a placeholder (None) mask was handed to a helper
\*   "IndexError"    img_stack has no image at slot frame
\*   "None"          (None, None) returned, orphans registered
\*   "inputs"        (x, boxes) returned, x holding n old cells
get_tracking_inputs(roi, frame) ==
    LET seg == roi.seg_stack
        cn == roi.lineage.cellnumbers
    IN
    IF Len(seg) <= frame
    THEN [kind |-> "RuntimeError", roi |-> roi, n |-> 0]
    ELSE IF NoPreviousCells(cn, frame)
    THEN IF seg[frame + 1] = None
         THEN [kind |-> "HelperError", roi |-> roi, n |-> 0]
         ELSE [kind |-> "None",
               roi |-> [roi EXCEPT !.lineage =
                          Orphans(@, frame, NComp(roi.roi_nb, seg[frame + 1]), 1)],
               n |-> 0]
    ELSE IF seg[frame] = None
    THEN [kind |-> "HelperError", roi |-> roi, n |-> 0]
    ELSE LET cells == OldCells(roi, frame) IN
         IF cells > 0 /\ Len(roi.img_stack) <= frame
         THEN [kind |-> "IndexError", roi |-> roi, n |-> 0]
         ELSE IF cells > 0 /\ seg[frame + 1] = None
         THEN [kind |-> "HelperError", roi |-> roi, n |-> 0]
         ELSE [kind |-> "inputs", roi |-> roi, n |-> cells]

\* the loop over old cells of process_tracking_outputs, from old cell o on
RECURSIVE UpdateOld(_, _, _, _)
UpdateOld(lin, frame, A, o) ==
    IF o > Len(A) THEN [lin |-> lin, ok |-> TRUE]
    ELSE LET u == update(lin, o, frame, nonzero(A[o]))
         IN IF u.ok THEN UpdateOld(u.lin, frame, A, o + 1) ELSE u

\* variant of IsOrphan that reads row n in place of column n
IsOrphanByRow(A, n) == n \notin DOMAIN A \/ A[n] = {}

\* column n of the attribution matrix is all zero
IsOrphan(A, n) == {o \in 1..Len(A) : n \in A[o]} = {}

\* the loop over new cells: a new cell no old cell is attributed to is an
\* orphan
RECURSIVE UpdateOrphans(_, _, _, _, _)
UpdateOrphans(lin, frame, A, nNew, n) ==
    IF n > nNew THEN lin
    ELSE IF IsOrphan(A, n)
         THEN UpdateOrphans(update(lin, None, frame, <<n>>).lin,
                            frame, A, nNew, n + 1)
         ELSE UpdateOrphans(lin, frame, A, nNew, n + 1)

\* ROI.process_tracking_outputs(y, frame, boxes): S is the score matrix
\* utils.getTrackingScores reads off y (None when the frame has no cell)
process_tracking_outputs(roi, frame, S) ==
    LET mask == roi.seg_stack[frame + 1] IN
    IF mask = None THEN [kind |-> "HelperError", roi |-> roi]
    ELSE IF NComp(roi.roi_nb, mask) = 0
    THEN [kind |-> "ok",
          roi |-> [roi EXCEPT !.lineage = update(@, None, frame, <<>>).lin]]
    ELSE LET A == getAttributions(S)
             old == UpdateOld(roi.lineage, frame, A, 1)
         IN IF ~old.ok
            THEN [kind |-> "IndexError", roi |-> [roi EXCEPT !.lineage = old.lin]]
            ELSE [kind |-> "ok",
                  roi |-> [roi EXCEPT !.lineage =
                     UpdateOrphans(old.lin, frame, A, NComp(roi.roi_nb, mask), 1)]]

\* ------------------------------------------------- ROI.extract_features
\* placeholder of label_stack (None); a label map is [mask, cells]: the
\* mask it was drawn from and the cell numbers it was drawn with
NoLabel == [mask |-> None, cells |-> <<>>]

RECURSIVE NoLabels(_)
NoLabels(k) == IF k <= 0 THEN <<>> ELSE Append(NoLabels(k - 1), NoLabel)

\* cell_nbs: the cell numbers of the live list of frame ("[]" when the
\* lineage has no list for the frame)
cell_nbs(roi, frame) ==
    LET cn == roi.lineage.cellnumbers
    IN IF Len(cn) <= frame THEN <<>>
       ELSE [i \in 1..Len(cn[frame + 1]) |-> cn[frame + 1][i].id]

\* utils.label_seg(seg, cell_nbs) resized to the box
label_seg(b, mask, nbs) ==
    [mask |-> mask,
     cells |-> SubSeq(nbs, 1, IF Len(nbs) < NComp(b, mask) THEN Len(nbs)
                              ELSE NComp(b, mask))]

\* variant of NeedsLabel that asks for the label map on every call
NeedsLabelAlways(label) == TRUE

\* "if self.label_stack[frame] is None"
NeedsLabel(label) == label = NoLabel

\* the measurement of one feature of a cell: what it was measured on
FeatureValue(name, label, fluo) ==
    IF name = "fluo1" THEN fluo ELSE <<label.mask>>

\* writes of the features of one cell, from feature k of feats on
RECURSIVE SetCell(_, _, _, _, _, _, _)
SetCell(lin, cell, frame, feats, label, fluo, k) ==
    IF k > Len(feats) THEN lin
    ELSE SetCell(setvalue(lin, cell, frame, feats[k],
                          FeatureValue(feats[k], label, fluo)),
                 cell, frame, feats, label, fluo, k + 1)

\* "Run through cells in resized frame", from cell c of the label map on
RECURSIVE SetCells(_, _, _, _, _, _)
SetCells(lin, frame, feats, label, fluo, c) ==
    IF c > Len(label.cells) THEN lin
    ELSE SetCells(SetCell(lin, label.cells[c], frame, feats, label, fluo, 1),
                  frame, feats, label, fluo, c + 1)

\* ROI.extract_features(frame, fluo_frames, features).  kind is "ok",
\* "IndexError" (seg_stack has no slot frame) or "HelperError" (the slot
\* holds a placeholder); label_stack has been extended in every case.
extract_features(roi, frame, fluo, feats) ==
    LET ext == IF Len(roi.label_stack) <= frame
               THEN roi.label_stack \o NoLabels(frame + 1 - Len(roi.label_stack))
               ELSE roi.label_stack
        roi1 == [roi EXCEPT !.label_stack = ext]
    IN IF NeedsLabel(ext[frame + 1]) /\ Len(roi.seg_stack) <= frame
       THEN [kind |-> "IndexError", roi |-> roi1]
       ELSE IF NeedsLabel(ext[frame + 1]) /\ roi.seg_stack[frame + 1] = None
       THEN [kind |-> "HelperError", roi |-> roi1]
       ELSE LET label == IF NeedsLabel(ext[frame + 1])
                         THEN label_seg(roi.roi_nb, roi.seg_stack[frame + 1],
                                        cell_nbs(roi, frame))
                         ELSE ext[frame + 1]
            IN [kind |-> "ok",
                roi |-> [roi1 EXCEPT
                    !.label_stack[frame + 1] = label,
                    !.lineage = SetCells(@, frame, feats, label, fluo, 1)]]

\* the score matrices the tracking predictor can give for nOld old cells
\* against the cells of the mask of slot frame
ScoreMatrices(roi, frame, nOld) ==
    LET mask == roi.seg_stack[frame + 1]
        nNew == IF mask = None THEN 0 ELSE NComp(roi.roi_nb, mask)
    IN [1..nOld -> [1..nNew -> Scores]]

\* ------------------------------------------------------------- Position
\* Position.segment's first loop for one ROI: the images of frames[k..]
\* are cropped and appended
RECURSIVE SegInputs(_, _, _)
SegInputs(roi, F, k) ==
    IF k > Len(F) THEN roi
    ELSE SegInputs(get_segmentation_inputs(roi, F[k]), F, k + 1)

\* the slot Position.segment stores the mask of the k-th frame of its list
\* at: references holds f of enumerate(trans_frames), the position in the list
SegSlot(F, k) == k - 1

\* Position.segment's dispatch loop for one ROI
RECURSIVE SegOutputs(_, _, _)
SegOutputs(roi, F, k) ==
    IF k > Len(F) THEN roi
    ELSE SegOutputs(process_segmentation_outputs(roi, F[k], SegSlot(F, k)),
                    F, k + 1)

\* Position.segment(frames) on a preprocessed position
segment(F) ==
    [r \in 1..Len(rois) |-> SegOutputs(SegInputs(rois[r], F, 1), F, 1)]

\* "trans_frames, self.drift_values = utils.driftcorr(trans_frames, ...)":
\* the translations estimated for the frames of this call, in list order
driftcorr(F) == F

\* Position.detect_rois: one ROI per box is added to self.rois
detect_rois == rois \o [b \in 1..NumROIs |-> NewROI(b)]

\* values of the attributes when there is nothing to hold
NoAttrs == [rois |-> <<>>, drift_values |-> <<>>, preprocessed |-> "None",
            cleared |-> TRUE, reader |-> "None", models |-> "None",
            pickle_skip |-> {}]

\* no clear yet
NoClear == [set |-> FALSE, attrs |-> NoAttrs]

\* no pickle file
NoFile == [exists |-> FALSE, state |-> NoAttrs]

NoSnap == [set |-> FALSE, F |-> <<>>, rois |-> <<>>]

\* ---------------------------------------------------- Position.features
\* the features Pipeline.process asks for by default with a reader of two
\* channels ("area" stands for the morphological features)
ProcessFeatures == <<"area", "fluo1">>

FeatureLists == {<<"area">>, ProcessFeatures}

\* "fluo_channels = [int(x[4:]) for x in features if x[0:4]=='fluo']"
HasFluo(feats) == \E k \in DOMAIN feats : feats[k] = "fluo1"

\* fluo_frames[f] after utils.driftcorr(fluo_frames, drift=drift_values):
\* the image at position f of the frames list, moved by the translation at
\* position f of drift_values
FluoFrame(F, drift, f, feats) ==
    IF HasFluo(feats) THEN <<F[f + 1], drift[f + 1]>> ELSE <<>>

\* "Run through frames" / "Run through ROIs", from call j on; call j is
\* for frames[(j-1) div nrois] and roi (j-1) mod nrois
RECURSIVE FeaturesLoop(_, _, _, _, _)
FeaturesLoop(rs, F, drift, feats, j) ==
    IF j > Len(F) * Len(rs) THEN [rois |-> rs, err |-> "none"]
    ELSE LET f == F[((j - 1) \div Len(rs)) + 1]
             r == ((j - 1) % Len(rs)) + 1
         IN IF HasFluo(feats) /\ f >= Len(F)
            THEN [rois |-> rs, err |-> "IndexError"]
            ELSE LET e == extract_features(rs[r], f,
                                           FluoFrame(F, drift, f, feats), feats)
                 IN IF e.kind = "ok"
                    THEN FeaturesLoop([rs EXCEPT ![r] = e.roi], F, drift,
                                      feats, j + 1)
                    ELSE [rois |-> [rs EXCEPT ![r] = e.roi], err |-> e.kind]

\* Position.features(frames, features)
features(F, feats) ==
    IF cleared THEN [rois |-> rois, err |-> "TypeError"]
    ELSE IF preprocessed = "False" /\ HasFluo(feats)
    THEN [rois |-> rois, err |-> "AttributeError"]
    ELSE IF HasFluo(feats) /\ Len(drift_values) < Len(F)
    THEN [rois |-> rois, err |-> "IndexError"]
    ELSE FeaturesLoop(rois, F, drift_values, feats, 1)

\* ------------------------------------------- Position save, load, clear
\* the attributes of the position
Attrs ==
    [rois |-> rois, drift_values |-> drift_values,
     preprocessed |-> preprocessed, cleared |-> cleared,
     reader |-> extern.reader, models |-> extern.models,
     pickle_skip |-> pickle_skip]

\* __getstate__: "state[k] = None if k in self._pickle_skip else v"
Pickled(k, v, none) == IF k \in pickle_skip THEN none ELSE v

getstate ==
    [rois |-> Pickled("rois", rois, <<>>),
     drift_values |-> Pickled("drift_values", drift_values, <<>>),
     preprocessed |-> Pickled("_preprocessed", preprocessed, "None"),
     cleared |-> Pickled("rois", cleared, TRUE),
     reader |-> Pickled("reader", extern.reader, "None"),
     models |-> Pickled("models", extern.models, "None"),
     pickle_skip |-> Pickled("_pickle_skip", pickle_skip, {})]

\* variant of Cleared that spares no attribute
ClearedAll(k, v, none) == none

\* clear: "if k not in self._pickle_skip: self.k = None"
Cleared(k, v, none) == IF k \notin pickle_skip THEN none ELSE v

clear ==
    [rois |-> Cleared("rois", rois, <<>>),
     drift_values |-> Cleared("drift_values", drift_values, <<>>),
     preprocessed |-> Cleared("_preprocessed", preprocessed, "None"),
     cleared |-> Cleared("rois", cleared, TRUE),
     reader |-> Cleared("reader", extern.reader, "None"),
     models |-> Cleared("models", extern.models, "None"),
     pickle_skip |-> Cleared("_pickle_skip", pickle_skip, {})]

\* load: "if k not in self._pickle_skip: self.k = v"
Loaded(k, cur, v) == IF k \notin pickle_skip THEN v ELSE cur

load(p) ==
    [rois |-> Loaded("rois", rois, p.rois),
     drift_values |-> Loaded("drift_values", drift_values, p.drift_values),
     preprocessed |-> Loaded("_preprocessed", preprocessed, p.preprocessed),
     cleared |-> Loaded("rois", cleared, p.cleared),
     reader |-> Loaded("reader", extern.reader, p.reader),
     models |-> Loaded("models", extern.models, p.models),
     pickle_skip |-> Loaded("_pickle_skip", pickle_skip, p.pickle_skip)]

\* the attributes become those of record a
SetAttrs(a) ==
    /\ rois' = a.rois
    /\ drift_values' = a.drift_values
    /\ preprocessed' = a.preprocessed
    /\ cleared' = a.cleared
    /\ extern' = [reader |-> a.reader, models |-> a.models]
    /\ pickle_skip' = a.pickle_skip

NoObs == [op |-> "none", r |-> 0, f |-> 0, kind |-> "none", n |-> 0,
          A |-> <<>>, F |-> <<>>]

\* ------------------------------------------- windows: tiling, stitching
\* a 2D array: shape (h, w) and the value at every (row, column)
NoImage == [h |-> 0, w |-> 0, px |-> <<>>]

\* the cropped region image of shape (h, w); every pixel holds its own
\* non-zero value
Image(h, w) ==
    [h |-> h, w |-> w,
     px |-> [c \in (0..(h - 1)) \X (0..(w - 1)) |-> c[1] * MaxSide + c[2] + 1]]

\* the starts of the windows along an axis of length n for windows of
\* length t: 0, t, 2t, ... (non-overlapping, the last one may pass the edge)
Starts(n, t) == [k \in 1..((n + t - 1) \div t) |-> (k - 1) * t]

\* one window of shape size at (y0, x0), zero-padded beyond the image
Window(img, size, y0, x0) ==
    [h |-> size[1], w |-> size[2],
     px |-> [c \in (0..(size[1] - 1)) \X (0..(size[2] - 1)) |->
                IF y0 + c[1] < img.h /\ x0 + c[2] < img.w
                THEN img.px[<<y0 + c[1], x0 + c[2]>>]
                ELSE 0]]

\* utils.create_windows(i, target_size): the windows in row-major order
\* and the y and x starts
create_windows(img, size) ==
    LET wy == Starts(img.h, size[1])
        wx == Starts(img.w, size[2])
    IN [x |-> [k \in 1..(Len(wy) * Len(wx)) |->
                 Window(img, size, wy[((k - 1) \div Len(wx)) + 1],
                        wx[((k - 1) % Len(wx)) + 1])],
        windows |-> <<wy, wx>>]

\* utils.stitch_pic(y, windows_y, windows_x): every window written whole at
\* its start
stitch_pic(y, wy, wx) ==
    LET th == y[1].h
        tw == y[1].w
        H == wy[Len(wy)] + th
        W == wx[Len(wx)] + tw
    IN [h |-> H, w |-> W,
        px |-> [c \in (0..(H - 1)) \X (0..(W - 1)) |->
                  y[(c[1] \div th) * Len(wx) + (c[2] \div tw) + 1]
                     .px[<<c[1] % th, c[2] % tw>>]]]

\* variant of crop that keeps the array as it is
cropNone(a, h, w) == a

\* "y[:h, :w]"
crop(a, h, w) ==
    LET H == IF h < a.h THEN h ELSE a.h
        W == IF w < a.w THEN w ELSE a.w
    IN [h |-> H, w |-> W,
        px |-> [c \in (0..(H - 1)) \X (0..(W - 1)) |-> a.px[c]]]

\* no image is being tiled
NoTiling == [phase |-> "none", img |-> NoImage, size |-> <<1, 1>>,
             x |-> <<>>, windows |-> <<<<>>, <<>>>>, y |-> NoImage]

\* no position has been pre-processed through Pipeline.preprocess
NoPreprocess == [P |-> <<>>, done |-> <<>>]

\* the state after Pipeline.__init__ on an experiment of n positions
InitWith(n) ==
    /\ movie \in [1..NumROIs -> [Frames -> 0..MaxCells]]
    /\ preprocessed = "False"
    /\ cleared = FALSE
    /\ rois = <<>>
    /\ pc = "idle"
    /\ stage = "none"
    /\ frames = <<>>
    /\ fi = 1
    /\ ri = 1
    /\ references = <<>>
    /\ err = "none"
    /\ obs = NoObs
    /\ trkLog = <<>>
    /\ stageLog = <<>>
    /\ direct = FALSE
    /\ calls = 0
    /\ predictor = "exact"
    /\ npositions = n
    /\ drift_values = <<>>
    /\ saved = NoFile
    /\ pickle_skip = {"reader", "models", "_pickle_skip"}
    /\ extern = [reader |-> "xpreader", models |-> "models"]
    /\ plist = <<>>
    /\ pidx = 1
    /\ other = "new"
    /\ snap = NoSnap
    /\ beforeClear = NoClear
    /\ npre = 0
    /\ tiling = NoTiling
    /\ ppos = NoPreprocess

Init == InitWith(1)

loopVars == <<frames, fi, ri, references, trkLog>>

\* an exception leaves the running operation (and Pipeline.process with it)
Raise(e) ==
    /\ err' = e
    /\ pc' = "idle"
    /\ stage' = "none"
    /\ frames' = <<>>
    /\ fi' = 1
    /\ ri' = 1
    /\ references' = <<>>

\* Position.preprocess (models holds a 'rois' model)
Preprocess ==
    /\ pc = "idle"
    /\ preprocessed = "False"
    /\ rois' = detect_rois
    /\ preprocessed' = "True"
    /\ err' = "none"
    /\ npre' = npre + 1
    /\ UNCHANGED <<envVars, auxVars, persistVars, pipeVars, snap, beforeClear>>
    /\ UNCHANGED <<movie, stageLog, direct, cleared, pc, stage, loopVars, obs, calls>>

\* Position.segment(frames) called on its own
Segment(F) ==
    /\ pc = "idle"
    /\ calls < MaxCalls
    /\ calls' = calls + 1
    /\ IF cleared
       THEN err' = "TypeError" /\ UNCHANGED <<rois, drift_values>>
       ELSE IF preprocessed = "False"
       THEN err' = "AttributeError" /\ UNCHANGED <<rois, drift_values>>
       ELSE err' = "none" /\ rois' = segment(F) /\ drift_values' = driftcorr(F)
    /\ obs' = [NoObs EXCEPT !.op = "segment", !.kind = err', !.F = F]
    /\ UNCHANGED <<envVars, auxVars, saved, pickle_skip, extern, pipeVars, ghostVars>>
    /\ UNCHANGED <<movie, stageLog, direct, preprocessed, cleared, pc, stage, loopVars>>

\* A caller segmenting frame f of one ROI by itself, out of order:
\* get_segmentation_inputs(img of f), the predictor, then
\* process_segmentation_outputs(y, frame=f)
RoiSegmentFrame(r, f) ==
    /\ pc = "idle"
    /\ calls < MaxCalls
    /\ r \in 1..Len(rois)
    /\ calls' = calls + 1
    /\ rois' = [rois EXCEPT ![r] =
                  process_segmentation_outputs(get_segmentation_inputs(@, f), f, f)]
    /\ err' = "none"
    /\ obs' = [NoObs EXCEPT !.op = "pso", !.r = r, !.f = f, !.kind = "ok"]
    /\ direct' = TRUE
    /\ UNCHANGED <<envVars, auxVars, persistVars, pipeVars, ghostVars>>
    /\ UNCHANGED <<movie, stageLog, preprocessed, cleared, pc, stage, loopVars>>

\* variant of NextStage with tracking placed before segmentation
NextStageTrackFirst(s) ==
    CASE s = "preprocess" -> "track"
      [] s = "track" -> "segment"
      [] s = "segment" -> "features"
      [] s = "features" -> "save"
      [] s = "save" -> "clear"
      [] OTHER -> "none"

\* the order of the stages in the body of Pipeline.process's loop
NextStage(s) ==
    CASE s = "preprocess" -> "segment"
      [] s = "segment" -> "track"
      [] s = "track" -> "features"
      [] s = "features" -> "save"
      [] s = "save" -> "clear"
      [] OTHER -> "none"

\* ------------------------------------------------------- Position.track
\* entry of Position.track(frames)
EnterTrack(F) ==
    /\ frames' = F
    /\ fi' = 1
    /\ ri' = 1
    /\ references' = <<>>
    /\ trkLog' = <<>>
    /\ pc' = "trk_in"

\* Position.track(frames) called on its own
Track(F) ==
    /\ pc = "idle"
    /\ calls < MaxCalls
    /\ calls' = calls + 1
    /\ obs' = NoObs
    /\ IF cleared
       THEN err' = "TypeError" /\ UNCHANGED <<pc, loopVars>>
       ELSE err' = "none" /\ EnterTrack(F)
    /\ UNCHANGED <<envVars, auxVars, persistVars, pipeVars, ghostVars>>
    /\ UNCHANGED <<movie, stageLog, direct, preprocessed, cleared, rois, stage>>

\* first loop of a frame: get_tracking_inputs of the next ROI
TrackInputs ==
    /\ pc = "trk_in"
    /\ ri <= Len(rois)
    /\ LET f == frames[fi]
           g == get_tracking_inputs(rois[ri], f)
       IN /\ obs' = [op |-> "gti", r |-> ri, f |-> f, kind |-> g.kind,
                     n |-> g.n, A |-> <<>>, F |-> <<>>]
          /\ trkLog' = Append(trkLog, <<ri, f, g.kind>>)
          /\ IF g.kind \in {"RuntimeError", "HelperError", "IndexError"}
             THEN Raise(g.kind) /\ UNCHANGED rois
             ELSE /\ rois' = [rois EXCEPT ![ri] = g.roi]
                  /\ references' =
                        IF g.kind = "inputs"
                        THEN Append(references, [r |-> ri, n |-> g.n, f |-> f])
                        ELSE references
                  /\ ri' = ri + 1
                  /\ UNCHANGED <<pc, stage, frames, fi, err>>
    /\ UNCHANGED <<envVars, auxVars, persistVars, pipeVars, ghostVars>>
    /\ UNCHANGED <<movie, stageLog, direct, preprocessed, cleared, calls>>

\* the tracking predictor runs on the frame's batch, dispatch begins
TrackPredict ==
    /\ pc = "trk_in"
    /\ ri > Len(rois)
    /\ pc' = "trk_out"
    /\ ri' = 1
    /\ UNCHANGED <<envVars, auxVars, persistVars, pipeVars, ghostVars>>
    /\ UNCHANGED <<movie, stageLog, direct, preprocessed, cleared, rois, stage, frames, fi,
                   references, err, obs, trkLog, calls>>

\* dispatch loop: process_tracking_outputs of the next reference
TrackOutputs ==
    /\ pc = "trk_out"
    /\ ri <= Len(references)
    /\ LET ref == references[ri] IN
       \E S \in ScoreMatrices(rois[ref.r], ref.f, ref.n) :
          LET p == process_tracking_outputs(rois[ref.r], ref.f, S) IN
          /\ obs' = [op |-> "pto", r |-> ref.r, f |-> ref.f, kind |-> p.kind,
                     n |-> ref.n, A |-> getAttributions(S), F |-> <<>>]
          /\ rois' = [rois EXCEPT ![ref.r] = p.roi]
          /\ IF p.kind = "ok"
             THEN ri' = ri + 1 /\ UNCHANGED <<pc, stage, frames, fi, references, err>>
             ELSE Raise(p.kind)
    /\ UNCHANGED <<envVars, auxVars, persistVars, pipeVars, ghostVars>>
    /\ UNCHANGED <<movie, stageLog, direct, preprocessed, cleared, trkLog, calls>>

\* end of a frame's dispatch: the next frame of the list, or return
TrackNext ==
    /\ pc = "trk_out"
    /\ ri > Len(references)
    /\ ri' = 1
    /\ references' = <<>>
    /\ obs' = NoObs
    /\ IF fi < Len(frames)
       THEN /\ fi' = fi + 1
            /\ pc' = "trk_in"
            /\ UNCHANGED <<frames, stage, trkLog, stageLog>>
       ELSE /\ fi' = 1
            /\ trkLog' = <<>>
            /\ IF stage = "track"
               THEN /\ pc' = "proc"
                    /\ stage' = NextStage(stage)
                    /\ stageLog' = Append(stageLog, "track")
                    /\ UNCHANGED frames
               ELSE /\ pc' = "idle"
                    /\ stage' = "none"
                    /\ frames' = <<>>
                    /\ UNCHANGED stageLog
    /\ UNCHANGED <<envVars, auxVars, persistVars, pipeVars, ghostVars>>
    /\ UNCHANGED <<movie, direct, preprocessed, cleared, rois, err, calls>>

\* ------------------------------------- features, save, clear, load
\* Position.features(frames, features) called on its own
Features(F, feats) ==
    /\ pc = "idle"
    /\ calls < MaxCalls
    /\ calls' = calls + 1
    /\ rois' = features(F, feats).rois
    /\ err' = features(F, feats).err
    /\ obs' = [NoObs EXCEPT !.op = "features", !.kind = err', !.F = F]
    /\ UNCHANGED <<movie, stageLog, direct, preprocessed, cleared, pc, stage,
                   loopVars, envVars, auxVars, persistVars, pipeVars, ghostVars>>

\* Position.save(filename, save_format=('pickle',)) called on its own
Save ==
    /\ pc = "idle"
    /\ calls < MaxCalls
    /\ calls' = calls + 1
    /\ saved' = [exists |-> TRUE, state |-> getstate]
    /\ err' = "none"
    /\ obs' = [NoObs EXCEPT !.op = "save"]
    /\ UNCHANGED <<movie, stageLog, direct, preprocessed, cleared, rois, pc,
                   stage, loopVars, envVars, auxVars, drift_values, pickle_skip,
                   extern, pipeVars, ghostVars>>

\* what a clear records of the attributes it wipes: set when the clear
\* comes right after a save
AttrsBeforeClear == [set |-> obs.op = "save", attrs |-> Attrs]

\* Position.clear() called on its own
Clear ==
    /\ pc = "idle"
    /\ calls < MaxCalls
    /\ calls' = calls + 1
    /\ SetAttrs(clear)
    /\ beforeClear' = AttrsBeforeClear
    /\ err' = "none"
    /\ obs' = [NoObs EXCEPT !.op = "clear"]
    /\ UNCHANGED <<movie, stageLog, direct, pc, stage, loopVars, envVars, auxVars,
                   saved, pipeVars, snap, npre>>

\* Position.load(filename) (also what Pipeline(reload=True) runs)
Load ==
    /\ pc = "idle"
    /\ IF saved.exists
       THEN SetAttrs(load(saved.state)) /\ err' = "none"
       ELSE /\ err' = "FileNotFoundError"
            /\ UNCHANGED <<rois, drift_values, preprocessed, cleared, extern,
                           pickle_skip>>
    /\ obs' = [NoObs EXCEPT !.op = "load", !.kind = err']
    /\ UNCHANGED <<movie, stageLog, direct, pc, stage, loopVars, envVars, auxVars,
                   saved, pipeVars, ghostVars, calls>>

\* ----------------------------------------------------- Pipeline.process
\* the positions lists given to Pipeline.process: position 0 is the position
\* modelled here, position 1 a second one whose processing is one step
PositionLists ==
    IF npositions = 1 THEN {<<0>>} ELSE {<<0>>, <<0, 1>>, <<1, 0>>}

\* Pipeline.process(positions, frames, features)
Process(P, F) ==
    /\ pc = "idle"
    /\ calls < MaxCalls
    /\ calls' = calls + 1
    /\ plist' = P
    /\ pidx' = 1
    /\ IF P[1] = 0
       THEN pc' = "proc" /\ stage' = "preprocess"
       ELSE pc' = "other" /\ stage' = "none"
    /\ frames' = F
    /\ err' = "none"
    /\ obs' = NoObs
    /\ trkLog' = <<>>
    /\ stageLog' = <<>>
    /\ UNCHANGED <<movie, direct, preprocessed, cleared, rois, fi, ri,
                   references, envVars, auxVars, persistVars, other, ghostVars>>

\* "for p in positions": the loop goes to its next position, or ends
NextPosition ==
    IF pidx < Len(plist)
    THEN /\ pidx' = pidx + 1
         /\ IF plist[pidx + 1] = 0
            THEN pc' = "proc" /\ stage' = "preprocess"
            ELSE pc' = "other" /\ stage' = "none"
         /\ UNCHANGED frames
    ELSE /\ pc' = "idle"
         /\ stage' = "none"
         /\ frames' = <<>>
         /\ UNCHANGED pidx

\* the loop body for position 1: it is processed and its results saved
ProcOther ==
    /\ pc = "other"
    /\ other' = "saved"
    /\ NextPosition
    /\ UNCHANGED <<movie, direct, preprocessed, cleared, rois, fi, ri,
                   references, err, obs, trkLog, stageLog, calls, envVars, auxVars,
                   persistVars, plist, ghostVars>>

\* "if not self.positions[p]._preprocessed: preprocess()"; on a cleared
\* position detect_rois adds to rois = None (TypeError)
ProcPreprocess ==
    /\ pc = "proc"
    /\ stage = "preprocess"
    /\ IF preprocessed = "True"
       THEN /\ stage' = NextStage(stage)
            /\ UNCHANGED <<preprocessed, rois, pc, frames, fi, ri, references,
                           err, stageLog, npre>>
       ELSE IF cleared
       THEN /\ Raise("TypeError")
            /\ npre' = npre + 1
            /\ UNCHANGED <<preprocessed, rois, stageLog>>
       ELSE /\ rois' = detect_rois
            /\ preprocessed' = "True"
            /\ npre' = npre + 1
            /\ stage' = NextStage(stage)
            /\ stageLog' = Append(stageLog, "preprocess")
            /\ UNCHANGED <<pc, frames, fi, ri, references, err>>
    /\ UNCHANGED <<movie, direct, cleared, obs, trkLog, calls, envVars, auxVars,
                   persistVars, pipeVars, snap, beforeClear>>

\* self.positions[p].segment(frames=frames)
ProcSegment ==
    /\ pc = "proc"
    /\ stage = "segment"
    /\ rois' = segment(frames)
    /\ drift_values' = driftcorr(frames)
    /\ stage' = NextStage(stage)
    /\ stageLog' = Append(stageLog, "segment")
    /\ obs' = [NoObs EXCEPT !.op = "segment", !.kind = "none", !.F = frames]
    /\ UNCHANGED <<movie, direct, preprocessed, cleared, pc, frames, fi, ri,
                   references, err, trkLog, calls, envVars, auxVars, saved,
                   pickle_skip, extern, pipeVars, ghostVars>>

\* self.positions[p].track(frames=frames) is entered
ProcTrack ==
    /\ pc = "proc"
    /\ stage = "track"
    /\ EnterTrack(frames)
    /\ obs' = NoObs
    /\ UNCHANGED <<movie, direct, stageLog, preprocessed, cleared, rois, stage,
                   err, calls, envVars, auxVars, persistVars, pipeVars, ghostVars>>

\* self.positions[p].features(frames=frames, features=features)
ProcFeatures ==
    /\ pc = "proc"
    /\ stage = "features"
    /\ LET r == features(frames, ProcessFeatures) IN
       /\ rois' = r.rois
       /\ obs' = [NoObs EXCEPT !.op = "features", !.kind = r.err, !.F = frames]
       /\ IF r.err = "none"
          THEN /\ stage' = NextStage(stage)
               /\ stageLog' = Append(stageLog, "features")
               /\ snap' = [set |-> TRUE, F |-> frames, rois |-> r.rois]
               /\ UNCHANGED <<pc, loopVars, err>>
          ELSE /\ Raise(r.err)
               /\ UNCHANGED <<stageLog, snap, trkLog>>
    /\ UNCHANGED <<movie, direct, preprocessed, cleared, calls, envVars, auxVars,
                   persistVars, pipeVars, beforeClear, npre>>

\* self.positions[p].save(filename, frames, save_format)
ProcSave ==
    /\ pc = "proc"
    /\ stage = "save"
    /\ saved' = [exists |-> TRUE, state |-> getstate]
    /\ stage' = NextStage(stage)
    /\ stageLog' = Append(stageLog, "save")
    /\ obs' = [NoObs EXCEPT !.op = "save"]
    /\ UNCHANGED <<movie, direct, preprocessed, cleared, rois, pc, loopVars,
                   err, calls, envVars, auxVars, drift_values, pickle_skip, extern,
                   pipeVars, ghostVars>>

\* self.positions[p].clear(), then the next position of the loop
ProcClear ==
    /\ pc = "proc"
    /\ stage = "clear"
    /\ SetAttrs(clear)
    /\ beforeClear' = AttrsBeforeClear
    /\ NextPosition
    /\ stageLog' = Append(stageLog, "clear")
    /\ obs' = [NoObs EXCEPT !.op = "clear"]
    /\ UNCHANGED <<movie, direct, fi, ri, references, err, trkLog, calls,
                   envVars, auxVars, saved, plist, other, snap, npre>>

Next ==
    \/ Preprocess
    \/ \E F \in SegLists : Segment(F)
    \/ \E r \in 1..NumROIs, f \in Frames : RoiSegmentFrame(r, f)
    \/ \E F \in FrameLists : Track(F)
    \/ TrackInputs
    \/ TrackPredict
    \/ TrackOutputs
    \/ TrackNext
    \/ \E P \in PositionLists, F \in SegLists : Process(P, F)
    \/ ProcPreprocess
    \/ ProcSegment
    \/ ProcTrack
    \/ ProcFeatures
    \/ ProcSave
    \/ ProcClear

Spec == Init /\ [][Next]_vars

\* ------------------------------------------ processing and persistence
\* Pipeline.process, Position.features, save, clear and load in any order
\* on one position
NextPersist ==
    \/ \E P \in PositionLists, F \in SegLists : Process(P, F)
    \/ ProcPreprocess
    \/ ProcSegment
    \/ ProcTrack
    \/ TrackInputs
    \/ TrackPredict
    \/ TrackOutputs
    \/ TrackNext
    \/ ProcFeatures
    \/ ProcSave
    \/ ProcClear
    \/ \E F \in FrameLists, feats \in FeatureLists : Features(F, feats)
    \/ Save
    \/ Clear
    \/ Load

InitPersist ==
    /\ Init
    /\ \A b \in 1..NumROIs : \A f \in Frames : movie[b][f] <= MaxCellsPersist

SpecPersist == InitPersist /\ [][NextPersist]_vars

\* ------------------------------------------ an experiment of two positions
\* Pipeline.process calls on an experiment with two positions
NextPipeline ==
    \/ \E P \in PositionLists, F \in SegLists : Process(P, F)
    \/ ProcOther
    \/ ProcPreprocess
    \/ ProcSegment
    \/ ProcTrack
    \/ TrackInputs
    \/ TrackPredict
    \/ TrackOutputs
    \/ TrackNext
    \/ ProcFeatures
    \/ ProcSave
    \/ ProcClear

InitPipeline ==
    /\ InitWith(2)
    /\ \A b \in 1..NumROIs : \A f \in Frames : movie[b][f] <= MaxCellsPersist

SpecPipeline == InitPipeline /\ [][NextPipeline]_vars

\* ------------------------------- a predictor that miscounts its outputs
\* what the segmentation model's predict can return for a batch of n inputs
Predictors == {"exact", "short", "long"}

\* len(y) for a batch of n inputs
PredictCount(p, n) ==
    IF p = "exact" THEN n ELSE IF p = "short" THEN n - 1 ELSE n + 1

\* Position.segment's dispatch loop from reference j on; references are in
\* frame-major order, one window per ROI (ref[1] = 1), ny = len(y).
\* "y[i:i+ref[1]]" is empty when i >= ny, and process_segmentation_outputs
\* then fails at "y[0,:,:,0]"
RECURSIVE SegDispatch(_, _, _, _)
SegDispatch(rs, F, ny, j) ==
    IF j > Len(F) * Len(rs) THEN [rois |-> rs, err |-> "none"]
    ELSE LET k == ((j - 1) \div Len(rs)) + 1
             r == ((j - 1) % Len(rs)) + 1
         IN IF j > ny
            THEN [rois |-> rs, err |-> "IndexError"]
            ELSE SegDispatch(
                    [rs EXCEPT ![r] = process_segmentation_outputs(
                                         rs[r], F[k], SegSlot(F, k))],
                    F, ny, j + 1)

\* Position.segment(frames) when predict returns PredictCount(p, n) outputs
segmentBatch(F, p) ==
    SegDispatch([r \in 1..Len(rois) |-> SegInputs(rois[r], F, 1)], F,
                PredictCount(p, Len(F) * Len(rois)), 1)

\* Position.segment(frames) with a predictor behaving as p
SegmentBatch(F, p) ==
    /\ pc = "idle"
    /\ calls < MaxCalls
    /\ calls' = calls + 1
    /\ predictor' = p
    /\ IF cleared
       THEN err' = "TypeError" /\ UNCHANGED <<rois, drift_values>>
       ELSE IF preprocessed = "False"
       THEN err' = "AttributeError" /\ UNCHANGED <<rois, drift_values>>
       ELSE /\ err' = segmentBatch(F, p).err
            /\ rois' = segmentBatch(F, p).rois
            /\ drift_values' = driftcorr(F)
    /\ obs' = [NoObs EXCEPT !.op = "segment", !.kind = err', !.F = F]
    /\ UNCHANGED <<npositions, saved, pickle_skip, extern, pipeVars, ghostVars,
                   auxVars>>
    /\ UNCHANGED <<movie, stageLog, direct, preprocessed, cleared, pc, stage,
                   loopVars>>

NextBatch ==
    \/ Preprocess
    \/ \E F \in SegLists, p \in Predictors : SegmentBatch(F, p)

SpecBatch == Init /\ [][NextBatch]_vars

\* ------------------------------------ the regions of a frame, in any order
\* the orders in which the regions of a position can be taken
Orders ==
    {o \in [1..NumROIs -> 1..NumROIs] :
        \A i, j \in 1..NumROIs : o[i] = o[j] => i = j}

\* Position.track, "Compile inputs and references", regions taken in the
\* given order from its k-th on
RECURSIVE InputsLoop(_, _, _, _, _)
InputsLoop(rs, f, order, refs, k) ==
    IF k > Len(order) THEN [rois |-> rs, refs |-> refs, err |-> "none"]
    ELSE LET r == order[k]
             g == get_tracking_inputs(rs[r], f)
         IN IF g.kind \in {"RuntimeError", "HelperError", "IndexError"}
            THEN [rois |-> rs, refs |-> refs, err |-> g.kind]
            ELSE InputsLoop([rs EXCEPT ![r] = g.roi], f, order,
                            IF g.kind = "inputs"
                            THEN Append(refs, [r |-> r, n |-> g.n, f |-> f])
                            ELSE refs,
                            k + 1)

\* variant of DispatchLoop that hands the k-th reference the scores of
\* region k, whatever region the reference names
RECURSIVE DispatchLoopByPosition(_, _, _, _)
DispatchLoopByPosition(rs, refs, S, k) ==
    IF k > Len(refs) THEN [rois |-> rs, err |-> "none"]
    ELSE LET ref == refs[k]
             p == process_tracking_outputs(rs[ref.r], ref.f, S[k])
         IN IF p.kind = "ok"
            THEN DispatchLoopByPosition([rs EXCEPT ![ref.r] = p.roi], refs, S,
                                        k + 1)
            ELSE [rois |-> [rs EXCEPT ![ref.r] = p.roi], err |-> p.kind]

\* Position.track, "Dispatch tracking outputs to rois", from reference k on;
\* S[r] is the score matrix read off region r's slice of y
RECURSIVE DispatchLoop(_, _, _, _)
DispatchLoop(rs, refs, S, k) ==
    IF k > Len(refs) THEN [rois |-> rs, err |-> "none"]
    ELSE LET ref == refs[k]
             p == process_tracking_outputs(rs[ref.r], ref.f, S[ref.r])
         IN IF p.kind = "ok"
            THEN DispatchLoop([rs EXCEPT ![ref.r] = p.roi], refs, S, k + 1)
            ELSE [rois |-> [rs EXCEPT ![ref.r] = p.roi], err |-> p.kind]

\* one frame of Position.track with the regions taken in the given order
TrackFrame(rs, f, order, S) ==
    LET i == InputsLoop(rs, f, order, <<>>, 1)
    IN IF i.err # "none" THEN [rois |-> i.rois, err |-> i.err]
       ELSE DispatchLoop(i.rois, i.refs, S, 1)

\* the score matrices the predictor can give for region roi at frame f
\* (none when the region submits no input)
RegionScores(roi, f) ==
    LET g == get_tracking_inputs(roi, f)
    IN IF g.kind = "inputs" THEN ScoreMatrices(g.roi, f, g.n) ELSE {<<>>}

\* the predictor outputs for one frame, region by region
FrameScores(rs, f) ==
    {S \in [1..Len(rs) -> UNION {RegionScores(rs[r], f) : r \in 1..Len(rs)}] :
        \A r \in 1..Len(rs) : S[r] \in RegionScores(rs[r], f)}

\* Position.preprocess, segment and track calls and single-region
\* segmentation, in any order
NextRegions ==
    \/ Preprocess
    \/ \E F \in SegLists : Segment(F)
    \/ \E r \in 1..NumROIs, f \in Frames : RoiSegmentFrame(r, f)
    \/ \E F \in FrameLists : Track(F)
    \/ TrackInputs
    \/ TrackPredict
    \/ TrackOutputs
    \/ TrackNext

SpecRegions == InitPersist /\ [][NextRegions]_vars

\* ------------------------------- a region segmented with crop_windows on
\* everything but the image being tiled
positionVars ==
    <<movie, preprocessed, cleared, rois, pc, stage, frames, fi, ri,
      references, err, obs, trkLog, stageLog, direct, calls, envVars,
      persistVars, pipeVars, ghostVars>>

\* utils.cropbox(img, self.box) gives a region image of shape (h, w);
\* cfg.target_size_seg is (ty, tx)
NewImage(h, w, ty, tx) ==
    /\ tiling.phase \in {"none", "stitched"}
    /\ tiling' = [NoTiling EXCEPT !.phase = "image", !.img = Image(h, w),
                                  !.size = <<ty, tx>>]
    /\ UNCHANGED <<positionVars, ppos>>

\* ROI.get_segmentation_inputs(img) with crop_windows: img_stack gets the
\* image, the windows go to the predictor
TileImage ==
    /\ tiling.phase = "image"
    /\ LET c == create_windows(tiling.img, tiling.size)
       IN tiling' = [tiling EXCEPT !.phase = "tiled", !.x = c.x,
                                   !.windows = c.windows]
    /\ UNCHANGED <<positionVars, ppos>>

\* ROI.process_segmentation_outputs(y, windows=windows) on the windows as
\* they were submitted: stitch, then crop to img_stack[0].shape
StitchTiles ==
    /\ tiling.phase = "tiled"
    /\ tiling' = [tiling EXCEPT
          !.phase = "stitched",
          !.y = crop(stitch_pic(tiling.x, tiling.windows[1], tiling.windows[2]),
                     tiling.img.h, tiling.img.w)]
    /\ UNCHANGED <<positionVars, ppos>>

NextTile ==
    \/ \E h, w \in 1..MaxSide, ty, tx \in 1..MaxTile : NewImage(h, w, ty, tx)
    \/ TileImage
    \/ StitchTiles

SpecTile == Init /\ [][NextTile]_vars

\* ------------------------------------------- batches and their dispatch
\* the inputs one reference stands for: n inputs of region r for frame f,
\* each tagged with its region, frame and rank
RefInputs(ref) == [j \in 1..ref.n |-> <<ref.r, ref.f, j>>]

\* "x += [inputs]" then np.concatenate(x): the batch, in reference order
RECURSIVE Batch(_, _)
Batch(refs, k) ==
    IF k > Len(refs) THEN <<>> ELSE RefInputs(refs[k]) \o Batch(refs, k + 1)

\* "y[i:i+n]" (a slice stops at the end of y)
Slice(y, i, n) ==
    SubSeq(y, IF i < Len(y) THEN i + 1 ELSE Len(y) + 1,
              IF i + n < Len(y) THEN i + n ELSE Len(y))

\* variant of NextOffset that moves on by one output per reference
NextOffsetByOne(i, ref) == i + 1

\* "i+=ref[1]"
NextOffset(i, ref) == i + ref.n

\* the dispatch loop of Position.segment and Position.track from reference
\* k on, i outputs having been handed out: what each reference is given
RECURSIVE Slices(_, _, _, _)
Slices(refs, y, k, i) ==
    IF k > Len(refs) THEN <<>>
    ELSE <<[r |-> refs[k].r, f |-> refs[k].f, lo |-> i,
            y |-> Slice(y, i, refs[k].n)]>>
         \o Slices(refs, y, k + 1, NextOffset(i, refs[k]))

\* the references of Position.segment(F) on nrois regions, region r
\* submitting nw[r] windows per frame: frame by frame, region by region
SegRefs(F, nrois, nw) ==
    [j \in 1..(Len(F) * nrois) |->
        [r |-> ((j - 1) % nrois) + 1, n |-> nw[((j - 1) % nrois) + 1],
         f |-> (j - 1) \div nrois]]

\* --------------------------------------------------- Pipeline.preprocess
\* the positions lists given to Pipeline.preprocess: valid indices, each
\* named once
PreLists ==
    {P \in UNION {[1..k -> 0..(npositions - 1)] : k \in 1..npositions} :
        \A i, j \in DOMAIN P : P[i] = P[j] => i = j}

\* "positions_torun = range(self.reader.positions)"
AllPositions == [k \in 1..npositions |-> k - 1]

\* "for p in positions_torun: self.positions[p].preprocess(
\* reference=references[p], ...)" from the k-th position on; references has
\* nrefs entries, done lists the positions pre-processed so far.  Position 0
\* is the position modelled here (a cleared one fails in detect_rois).
RECURSIVE PreLoop(_, _, _, _)
PreLoop(torun, nrefs, k, done) ==
    IF k > Len(torun) THEN [done |-> done, err |-> "none"]
    ELSE IF torun[k] >= nrefs THEN [done |-> done, err |-> "IndexError"]
    ELSE IF torun[k] = 0 /\ cleared THEN [done |-> done, err |-> "TypeError"]
    ELSE PreLoop(torun, nrefs, k + 1, Append(done, torun[k]))

\* Pipeline.preprocess(positions, references=None); positions is None when
\* all is TRUE.  "references = [None for _ in positions_torun]"
PipelinePreprocess(P, all) ==
    /\ pc = "idle"
    /\ calls < MaxCalls
    /\ calls' = calls + 1
    /\ LET torun == IF all THEN AllPositions ELSE P
           l == PreLoop(torun, Len(torun), 1, <<>>)
       IN /\ ppos' = [P |-> torun, done |-> l.done]
          /\ err' = l.err
          /\ obs' = [NoObs EXCEPT !.op = "ppre", !.kind = l.err, !.F = torun]
          /\ IF \E k \in 1..Len(l.done) : l.done[k] = 0
             THEN /\ rois' = detect_rois
                  /\ preprocessed' = "True"
                  /\ npre' = npre + 1
             ELSE UNCHANGED <<rois, preprocessed, npre>>
    /\ UNCHANGED <<movie, stageLog, direct, cleared, pc, stage, loopVars,
                   envVars, persistVars, pipeVars, snap, beforeClear, tiling>>

NextPre ==
    \/ \E P \in PreLists : PipelinePreprocess(P, FALSE)
    \/ PipelinePreprocess(<<>>, TRUE)

SpecPre == InitWith(MaxPositions) /\ [][NextPre]_vars

\* ---------------------------------------------- tracking on its own
\* A position that was preprocessed and whose frames 0..MaxFrame were all
\* segmented by one Position.segment call, then tracked by any sequence of
\* Position.track calls.
AllFrames == [k \in 1..(MaxFrame + 1) |-> k - 1]

InitTrack ==
    /\ movie \in [1..NumROIs -> [Frames -> 0..MaxCells]]
    /\ preprocessed = "True"
    /\ cleared = FALSE
    /\ rois = [b \in 1..NumROIs |->
                 SegOutputs(SegInputs(NewROI(b), AllFrames, 1), AllFrames, 1)]
    /\ pc = "idle"
    /\ stage = "none"
    /\ frames = <<>>
    /\ fi = 1
    /\ ri = 1
    /\ references = <<>>
    /\ err = "none"
    /\ obs = NoObs
    /\ trkLog = <<>>
    /\ stageLog = <<>>
    /\ direct = FALSE
    /\ calls = 0
    /\ predictor = "exact"
    /\ npositions = 1
    /\ drift_values = <<>>
    /\ saved = NoFile
    /\ pickle_skip = {"reader", "models", "_pickle_skip"}
    /\ extern = [reader |-> "xpreader", models |-> "models"]
    /\ plist = <<>>
    /\ pidx = 1
    /\ other = "new"
    /\ snap = NoSnap
    /\ beforeClear = NoClear
    /\ npre = 0
    /\ tiling = NoTiling
    /\ ppos = NoPreprocess

NextTrack ==
    \/ \E F \in TrackLists : calls < MaxTracks /\ Track(F)
    \/ TrackInputs
    \/ TrackPredict
    \/ TrackOutputs
    \/ TrackNext

SpecTrack == InitTrack /\ [][NextTrack]_vars

\* ====================================================== properties
\* a get_tracking_inputs call is the next step of the running track call
AtGTI == pc = "trk_in" /\ ri <= Len(rois)

\* a process_tracking_outputs call is the next step
AtPTO == pc = "trk_out" /\ ri <= Len(references)

\* no mask is stored for frame f: the slot is absent or holds a placeholder
NoMask(roi, f) == Len(roi.seg_stack) <= f \/ roi.seg_stack[f + 1] = None

\* C1: get_tracking_inputs(frame=f) on a region holding no mask for frame f
\* (slot absent or placeholder) raises RuntimeError and leaves the region's
\* lineage unchanged.
C1_NoMaskRaisesRuntimeError ==
    [][(AtGTI /\ NoMask(rois[ri], frames[fi]))
         => /\ err' = "RuntimeError"
            /\ obs'.kind = "RuntimeError"
            /\ rois'[ri].lineage = rois[ri].lineage]_vars

\* C2: within one Position.track call, no region has a frame tracked after
\* a later frame: the frames of a region are tracked in increasing order
\* whatever the order of the frames list.
C2_TrackedInIncreasingOrder ==
    \A i, j \in DOMAIN trkLog :
        (i < j /\ trkLog[i][1] = trkLog[j][1]) => trkLog[i][2] <= trkLog[j][2]

\* the stages of Pipeline.process in the order the claim gives them
StageOrder == <<"segment", "track", "features", "save", "clear">>

\* the stage log without a leading "preprocess"
AfterPreprocess(log) ==
    IF Len(log) > 0 /\ log[1] = "preprocess" THEN Tail(log) ELSE log

\* C3: the stages of Pipeline.process occur in the order preprocessing (only
\* if not already done), segmentation, tracking, feature extraction, save,
\* clear: the stages gone through are always a prefix of that order, the
\* stage being run is the next one of it, tracking steps run only between
\* the end of segmentation and the start of feature extraction, and while
\* they run every region holds the masks segment stored for the request.
StagesInOrder ==
    LET done == AfterPreprocess(stageLog) IN
    /\ Len(done) <= Len(StageOrder)
    /\ \A k \in DOMAIN done : done[k] = StageOrder[k]
    /\ stage \notin {"none", "preprocess"} => StageOrder[Len(done) + 1] = stage
    /\ stage = "preprocess" => stageLog = <<>>
    /\ (stage # "none" /\ pc \in {"trk_in", "trk_out"})
         => /\ stage = "track"
            /\ \A r \in DOMAIN rois : \A k \in DOMAIN frames :
                  /\ Len(rois[r].seg_stack) >= k
                  /\ rois[r].seg_stack[k] = frames[k]

C3_StagesInOrder ==
    /\ []StagesInOrder
    /\ [][stage = "preprocess"
            => /\ stage' \in {"segment", "none"}
               /\ stage' = "segment"
                    => ((stageLog' = <<"preprocess">>) <=> (preprocessed # "True"))
               /\ stage' = "none" => err' # "none"]_vars

\* C3 witness: a Pipeline.process that preprocessed, segmented, tracked two
\* frames and has reached its last stage
C3_Witness ==
    /\ stage = "clear"
    /\ stageLog = <<"preprocess", "segment", "track", "features", "save">>
    /\ Len(frames) = 2

\* C4: after Position.segment(frames=F) returns, every region holds at
\* index f the mask computed from frame f, for each frame number f of F.
C4_SegmentStoresAtFrameNumber ==
    (obs.op = "segment" /\ obs.kind = "none")
        => \A r \in DOMAIN rois : \A k \in DOMAIN obs.F :
              /\ Len(rois[r].seg_stack) > obs.F[k]
              /\ rois[r].seg_stack[obs.F[k] + 1] = obs.F[k]

\* C5: process_segmentation_outputs(frame=f) on a mask sequence of length L:
\* if L <= f the sequence gets length f+1, slots L..f-1 hold placeholders,
\* slot f the new mask and slots 0..L-1 are unchanged; if L > f only slot f
\* changes and the length stays L.
C5_SegmentationOutputsFrameEffect ==
    [][(obs'.op = "pso" /\ calls' = calls + 1)
         => LET f == obs'.f
                old == rois[obs'.r].seg_stack
                new == rois'[obs'.r].seg_stack
                L == Len(old)
            IN /\ Len(new) = IF L <= f THEN f + 1 ELSE L
               /\ new[f + 1] = f
               /\ L <= f => /\ \A i \in (L + 1)..f : new[i] = None
                            /\ \A i \in 1..L : new[i] = old[i]
               /\ L > f => \A i \in 1..L : i # f + 1 => new[i] = old[i]]_vars

\* C5 witness: a mask stored out of order, past the end of the sequence,
\* with a placeholder filling the gap
C5_Witness ==
    /\ obs.op = "pso"
    /\ obs.f > 0
    /\ rois[obs.r].seg_stack[obs.f] = None
    /\ rois[obs.r].seg_stack[obs.f + 1] = obs.f

\* C6: after any sequence of Position.segment calls, for every index holding
\* a mask img_stack holds at that index the image of the frame the mask was
\* computed from, and img_stack holds at most one image per frame.
C6_ImagesAlignedWithMasks ==
    ~direct =>
        \A r \in DOMAIN rois :
            LET img == rois[r].img_stack
                seg == rois[r].seg_stack
            IN /\ \A i \in DOMAIN seg :
                    seg[i] # None => (i <= Len(img) /\ img[i] = seg[i])
               /\ \A i, j \in DOMAIN img : img[i] = img[j] => i = j

\* the live list of frame f (empty when the lineage has none)
LiveList(roi, f) ==
    IF Len(roi.lineage.cellnumbers) > f
    THEN roi.lineage.cellnumbers[f + 1] ELSE <<>>

\* the entries of list after that follow the entries of list before
AddedEntries(before, after) == SubSeq(after, Len(before) + 1, Len(after))

AppendOnly(before, after) ==
    /\ Len(after) >= Len(before)
    /\ SubSeq(after, 1, Len(before)) = before

\* C7: when process_tracking_outputs attributes an old cell o to two new
\* cells, the lineage at frame f holds two distinct child entries
\* referencing parent o, and neither of those children is also recorded as
\* a child of another old cell at frame f.
C7_DivisionChildrenHaveOneParent ==
    (obs.op = "pto" /\ obs.kind = "ok")
        => LET live == LiveList(rois[obs.r], obs.f)
               prev == LiveList(rois[obs.r], obs.f - 1)
           IN \A o \in DOMAIN obs.A :
                Cardinality(obs.A[o]) = 2
                  => /\ \E i, j \in DOMAIN live :
                          /\ i # j
                          /\ live[i].id # live[j].id
                          /\ live[i].parent = prev[o].id
                          /\ live[j].parent = prev[o].id
                     /\ \A n \in obs.A[o] : \A i \in DOMAIN live :
                          (live[i].pole = n /\ live[i].parent # None)
                              => live[i].parent = prev[o].id

\* C8: in process_tracking_outputs a new cell n is registered as an orphan
\* exactly once if column n of the attribution matrix is all zero and not at
\* all otherwise; the entries with a parent added for n are as many as the
\* old cells attributed to n, so an old cell with an all-zero row adds no
\* entry to the frame's live list; the call raises no exception and the
\* frame has a live list afterwards.
C8_OrphansAndLostCells ==
    [][AtPTO
        => LET ref == references[ri]
               A == obs'.A
               before == LiveList(rois[ref.r], ref.f)
               after == LiveList(rois'[ref.r], ref.f)
               added == AddedEntries(before, after)
               nNew == NComp(rois[ref.r].roi_nb, rois[ref.r].seg_stack[ref.f + 1])
           IN /\ obs'.kind = "ok"
              /\ err' = err
              /\ Len(A) = ref.n
              /\ Len(rois'[ref.r].lineage.cellnumbers) > ref.f
              /\ AppendOnly(before, after)
              /\ \A i \in DOMAIN added : added[i].pole \in 1..nNew
              /\ \A n \in 1..nNew :
                   /\ Cardinality({i \in DOMAIN added :
                          added[i].pole = n /\ added[i].parent = None})
                        = IF \A o \in DOMAIN A : n \notin A[o] THEN 1 ELSE 0
                   /\ Cardinality({i \in DOMAIN added :
                          added[i].pole = n /\ added[i].parent # None})
                        = Cardinality({o \in DOMAIN A : n \in A[o]})]_vars

\* C8 witness: process_tracking_outputs has run on a matrix with an
\* all-zero row, an all-zero column and a non-zero entry
C8_Witness ==
    /\ obs.op = "pto"
    /\ obs.kind = "ok"
    /\ \E o \in DOMAIN obs.A : obs.A[o] = {}
    /\ \E o \in DOMAIN obs.A : obs.A[o] # {}
    /\ \E e \in DOMAIN LiveList(rois[obs.r], obs.f) :
          /\ LiveList(rois[obs.r], obs.f)[e].parent = None
          /\ \A o \in DOMAIN obs.A : LiveList(rois[obs.r], obs.f)[e].pole \notin obs.A[o]

\* the last get_tracking_inputs call of the running track call for region r
LastGTI(r) ==
    LET idx == {i \in DOMAIN trkLog : trkLog[i][1] = r}
    IN trkLog[CHOOSE i \in idx : \A j \in idx : j <= i]

\* C9: get_tracking_inputs(frame=f) returns (None, None) exactly when f = 0,
\* or the lineage has no list for frame f-1, or that list is empty; it then
\* registers one orphan per connected component of frame f's mask and
\* Position.track adds no predictor input for the region; otherwise it
\* registers nothing and returns the inputs.  Every process_tracking_outputs
\* call of Position.track is for a region whose get_tracking_inputs of the
\* same frame returned inputs.
C9_NoPreviousCellsMeansOrphans ==
    /\ [][AtGTI
           => LET f == frames[fi]
                  roi == rois[ri]
                  cn == roi.lineage.cellnumbers
                  before == LiveList(roi, f)
                  after == LiveList(rois'[ri], f)
                  added == AddedEntries(before, after)
                  comps == NComp(roi.roi_nb, roi.seg_stack[f + 1])
              IN IF f = 0 \/ Len(cn) < f \/ Len(cn[f]) = 0
                 THEN /\ obs'.kind = "None"
                      /\ references' = references
                      /\ AppendOnly(before, after)
                      /\ Len(added) = comps
                      /\ \A c \in 1..comps :
                            Cardinality({i \in DOMAIN added :
                                added[i].pole = c /\ added[i].parent = None}) = 1
                 ELSE /\ obs'.kind = "inputs"
                      /\ rois'[ri].lineage = roi.lineage
                      /\ Len(references') = Len(references) + 1
                      /\ references'[Len(references')].r = ri]_vars
    /\ [][AtPTO
           => /\ \E i \in DOMAIN trkLog : trkLog[i][1] = references[ri].r
              /\ LastGTI(references[ri].r)
                    = <<references[ri].r, frames[fi], "inputs">>
              /\ references[ri].f = frames[fi]
              /\ obs'.r = references[ri].r]_vars

\* C9 witness: a frame after the first was handed to get_tracking_inputs
\* while the previous frame's live list was empty, and orphans were
\* registered for its cells
C9_Witness ==
    /\ obs.op = "gti"
    /\ obs.kind = "None"
    /\ obs.f > 0
    /\ Len(rois[obs.r].lineage.cellnumbers) > obs.f
    /\ LiveList(rois[obs.r], obs.f - 1) = <<>>
    /\ Len(LiveList(rois[obs.r], obs.f)) = MaxCells
    /\ references = <<>>

\* C10: for every frame f > 0, every entry of the frame-f live list is an
\* orphan or names a parent that is in the live list of frame f-1; and every
\* old-cell index handed to process_tracking_outputs is an index into the
\* live list of frame f-1, so that no lineage update fails.
C10_ParentsWereLive ==
    /\ \A r \in DOMAIN rois :
         \A f \in 1..MaxFrame :
            \A i \in DOMAIN LiveList(rois[r], f) :
                LET e == LiveList(rois[r], f)[i] IN
                \/ e.parent = None
                \/ \E j \in DOMAIN LiveList(rois[r], f - 1) :
                      LiveList(rois[r], f - 1)[j].id = e.parent
    /\ \A k \in DOMAIN references :
         /\ references[k].f > 0
         /\ references[k].n <= Len(LiveList(rois[references[k].r], references[k].f - 1))
    /\ err # "IndexError"

\* C10 witness: a division: two entries of a frame's live list name the
\* same parent, which is in the previous frame's live list
C10_Witness ==
    \E r \in DOMAIN rois : \E f \in 1..MaxFrame :
        \E i, j \in DOMAIN LiveList(rois[r], f) :
            /\ i # j
            /\ LiveList(rois[r], f)[i].parent # None
            /\ LiveList(rois[r], f)[i].parent = LiveList(rois[r], f)[j].parent
            /\ LiveList(rois[r], f)[i].id # LiveList(rois[r], f)[j].id

\* C11: a region with one cell in frame 0's mask and two components in
\* frame 1's mask: tracking frame 0 on the empty lineage registers one orphan
\* with id 1; tracking frame 1 with both scores above the threshold
\* (attribution matrix [[1,1]]) makes frame 1's live list exactly the two new
\* ids 2 and 3, both with parent 1, and id 1 is absent from it.
C11_DivisionScenario ==
    /\ [][(AtGTI /\ frames[fi] = 0 /\ movie[ri][0] = 1
              /\ rois[ri].lineage = NewLineage)
           => /\ obs'.kind = "None"
              /\ rois'[ri].lineage.cellnumbers = <<(<<Entry(1, None, 1)>>)>>
              /\ rois'[ri].lineage.ncells = 1]_vars
    /\ [][(AtPTO /\ references[ri].f = 1
              /\ movie[references[ri].r][0] = 1 /\ movie[references[ri].r][1] = 2
              /\ rois[references[ri].r].lineage.cellnumbers
                    = <<(<<Entry(1, None, 1)>>)>>
              /\ obs'.A = <<{1, 2}>>)
           => LET live == LiveList(rois'[references[ri].r], 1)
              IN /\ obs'.kind = "ok"
                 /\ Len(live) = 2
                 /\ {live[1].id, live[2].id} = {2, 3}
                 /\ live[1].parent = 1 /\ live[2].parent = 1
                 /\ {live[1].pole, live[2].pole} = {1, 2}
                 /\ LiveList(rois'[references[ri].r], 0)
                       = <<Entry(1, None, 1)>>]_vars

\* C11 witness: the division has been recorded
C11_Witness ==
    /\ obs.op = "pto"
    /\ obs.f = 1
    /\ obs.A = <<{1, 2}>>
    /\ movie[obs.r][0] = 1
    /\ movie[obs.r][1] = 2
    /\ rois[obs.r].lineage.cellnumbers
          = <<(<<Entry(1, None, 1)>>), <<Entry(2, 1, 1), Entry(3, 1, 2)>> >>

\* C12: when segmentation, tracking and feature extraction are run for a
\* frame range F on a position on which they were already run for F (the
\* position reloaded from its saved state in between), every region's image
\* sequence, mask sequence, label maps and lineage are after the second
\* feature extraction what they were after the first.
C12_ProcessingIdempotent ==
    [][(pc = "proc" /\ stage = "features" /\ snap.set /\ snap.F = frames
          /\ stage' = "save")
        => rois' = snap.rois]_vars

\* C13: after save (pickle), clear, then load of the saved file, every
\* attribute of the position (the regions with their masks, label maps and
\* lineage, the drift values, the flags) has the value it had just before
\* the clear; clear and load never alter reader, models or the skip set.
C13_ClearThenLoadRestores ==
    /\ [][(obs.op = "clear" /\ beforeClear.set /\ obs'.op = "load")
            => Attrs' = beforeClear.attrs]_vars
    /\ [][(obs'.op \in {"clear", "load"})
            => /\ extern' = extern
               /\ pickle_skip' = pickle_skip
               /\ extern'.reader # "None"
               /\ extern'.models # "None"
               /\ pickle_skip' # {}]_vars

\* C13 witness: a processed position, saved and cleared by Pipeline.process,
\* has been loaded back with a tracked lineage and its features
C13_Witness ==
    /\ obs.op = "load"
    /\ calls = 1
    /\ beforeClear.set
    /\ ~cleared
    /\ preprocessed = "True"
    /\ Attrs = beforeClear.attrs
    /\ \E r \in DOMAIN rois : /\ Len(rois[r].lineage.values) > 0
                               /\ Len(rois[r].seg_stack) > 0
                               /\ Len(rois[r].label_stack) > 0


\* C14: over any sequence of Pipeline.process calls preprocessing runs exactly
\* once per position: when a process call reaches its preprocessing stage and
\* Position.preprocess has already been invoked on the position, the call does
\* not invoke it again, also when the call follows the save-and-clear step of
\* an earlier process call.
C14_PreprocessOnce ==
    [][(pc = "proc" /\ stage = "preprocess" /\ npre >= 1) => npre' = npre]_vars


\* C15: a failure of one position during Pipeline.process is isolated to that
\* position: when a process call has ended with an exception raised while
\* position 0 was processed, position 1, if it was requested in that call,
\* has its results (it was processed and saved).
C15_FailureIsolated ==
    (pc = "idle" /\ calls >= 1 /\ err # "none" /\ plist[pidx] = 0
        /\ \E k \in 1..Len(plist) : plist[k] = 1)
    => other = "saved"


\* C16: when the segmentation predictor returns a batch whose cardinality
\* differs from the number of inputs submitted, Position.segment ends with an
\* error and no region's mask sequence or lineage has been modified.
C16_BatchMismatchFatal ==
    [][(obs'.op = "segment" /\ calls' = calls + 1 /\ preprocessed = "True"
            /\ ~cleared /\ predictor' # "exact")
       => /\ err' # "none"
          /\ \A r \in 1..Len(rois) :
                /\ rois'[r].seg_stack = rois[r].seg_stack
                /\ rois'[r].lineage = rois[r].lineage]_vars


\* C17: drift translations are recorded per frame and kept: after any
\* sequence of Position.segment calls (no region segmented by itself), the
\* translation estimated for every frame whose image a region holds is still
\* in the position's drift record.
C17_DriftRecorded ==
    (~direct /\ ~cleared)
    => \A r \in 1..Len(rois) : \A k \in 1..Len(rois[r].img_stack) :
          \E j \in 1..Len(drift_values) :
             drift_values[j] = rois[r].img_stack[k]


\* C18: label maps are computed on first access per frame and never
\* recomputed: over every Position.features call, a slot of a region's
\* label_stack that held a label map keeps it, and a slot of a frame the call
\* does not access is unchanged or, if new, a placeholder.
C18_LabelsCached ==
    [][(obs'.op = "features" /\ ~cleared /\ Len(rois') = Len(rois))
       => \A r \in 1..Len(rois) :
            LET old == rois[r].label_stack
                new == rois'[r].label_stack
            IN /\ Len(new) >= Len(old)
               /\ \A k \in 1..Len(new) :
                    /\ (k <= Len(old) /\ old[k] # NoLabel) => new[k] = old[k]
                    /\ (\A j \in 1..Len(obs'.F) : obs'.F[j] # k - 1)
                       => new[k] = IF k <= Len(old) THEN old[k] ELSE NoLabel]_vars

\* a features call has run on a frame whose cached label map differs from
\* what the mask and the lineage would give now
C18_Witness ==
    /\ obs.op = "features"
    /\ obs.kind = "none"
    /\ calls = 2
    /\ \E r \in 1..Len(rois) :
          /\ Len(rois[r].label_stack) > 0
          /\ Len(rois[r].seg_stack) > 0
          /\ rois[r].seg_stack[1] # None
          /\ rois[r].label_stack[1] # NoLabel
          /\ rois[r].label_stack[1] #
                label_seg(rois[r].roi_nb, rois[r].seg_stack[1],
                          cell_nbs(rois[r], 0))


\* C19: feature writes are idempotent: a lineage never holds two values for
\* one (cell, frame, feature name), and on every region state reached, calling
\* ROI.extract_features a second time for the same frame with the same
\* feature list and fluorescence input raises nothing and leaves the lineage's
\* stored values as they were after the first call.
C19_FeatureWritesIdempotent ==
    \A r \in 1..Len(rois) :
       LET v == rois[r].lineage.values IN
       /\ \A i, j \in 1..Len(v) :
             (v[i].cell = v[j].cell /\ v[i].frame = v[j].frame
                 /\ v[i].name = v[j].name) => i = j
       /\ \A f \in Frames, feats \in FeatureLists :
             LET fluo == IF HasFluo(feats) THEN <<f, f>> ELSE <<>>
                 e1 == extract_features(rois[r], f, fluo, feats)
                 e2 == extract_features(e1.roi, f, fluo, feats)
             IN e1.kind = "ok"
                => /\ e2.kind = "ok"
                   /\ e2.roi.lineage.values = e1.roi.lineage.values

\* the features stage of a second Pipeline.process has written the features
\* of cells whose values were already stored by the first one and loaded back
C19_Witness ==
    /\ obs.op = "features"
    /\ obs.kind = "none"
    /\ calls = 2
    /\ saved.exists
    /\ \E r \in 1..Len(rois) :
          /\ Len(rois[r].lineage.values) > 0
          /\ Len(saved.state.rois) >= r
          /\ \E i \in 1..Len(saved.state.rois[r].lineage.values) :
             \E j \in 1..Len(rois[r].lineage.values) :
                LET a == saved.state.rois[r].lineage.values[i]
                    b == rois[r].lineage.values[j]
                IN a.cell = b.cell /\ a.frame = b.frame /\ a.name = b.name


C21_TileStitchRoundTrip ==
    /\ tiling.phase \in {"tiled", "stitched"}
       => /\ Len(tiling.x) = Len(tiling.windows[1]) * Len(tiling.windows[2])
          /\ \A k \in 1..Len(tiling.x) :
                /\ tiling.x[k].h = tiling.size[1]
                /\ tiling.x[k].w = tiling.size[2]
          /\ \A c \in DOMAIN tiling.img.px :
                \E k \in 1..Len(tiling.x) :
                   LET y0 == tiling.windows[1][((k - 1) \div Len(tiling.windows[2])) + 1]
                       x0 == tiling.windows[2][((k - 1) % Len(tiling.windows[2])) + 1]
                   IN /\ y0 <= c[1] /\ c[1] < y0 + tiling.size[1]
                      /\ x0 <= c[2] /\ c[2] < x0 + tiling.size[2]
                      /\ tiling.x[k].px[<<c[1] - y0, c[2] - x0>>] = tiling.img.px[c]
    /\ tiling.phase = "stitched" => tiling.y = tiling.img

\* an image whose sides are not multiples of the window's, cut into four
\* windows (the 300x500 at 256x256 case in small), has been stitched back
C21_Witness ==
    /\ tiling.phase = "stitched"
    /\ tiling.windows = <<(<<0, tiling.size[1]>>), <<0, tiling.size[2]>> >>
    /\ tiling.img.h % tiling.size[1] # 0
    /\ tiling.img.w % tiling.size[2] # 0
    /\ Len(tiling.x) = 4
    /\ \E c \in DOMAIN tiling.x[4].px : tiling.x[4].px[c] = 0

\* C22: when Position.track has dispatched the outputs of frame f to every
\* region (tracking of frame f has completed), the lineage's list for frame
\* f, in every region that holds one, has exactly one entry per connected
\* component of the frame's mask.
C22_OneEntryPerCell ==
    (pc = "trk_out" /\ ri > Len(references) /\ fi <= Len(frames))
    => \A r \in 1..Len(rois) :
          LET f == frames[fi] IN
          (/\ Len(rois[r].seg_stack) > f
           /\ rois[r].seg_stack[f + 1] # None
           /\ Len(rois[r].lineage.cellnumbers) > f)
          => Len(rois[r].lineage.cellnumbers[f + 1])
                = NComp(rois[r].roi_nb, rois[r].seg_stack[f + 1])


\* what the dispatch loop hands out for the references refs when the
\* predictor's output has the cardinality and order of the batch: one slice
\* per reference, contiguous from 0, covering the batch, each holding the
\* outputs of the inputs of its own region and frame, in order
PartitionOf(refs) ==
    LET y == Batch(refs, 1)
        sl == Slices(refs, y, 1, 0)
    IN /\ Len(sl) = Len(refs)
       /\ \A k \in 1..Len(sl) :
             /\ sl[k].r = refs[k].r
             /\ sl[k].f = refs[k].f
             /\ sl[k].y = RefInputs(refs[k])
             /\ sl[k].lo = IF k = 1 THEN 0 ELSE sl[k - 1].lo + Len(sl[k - 1].y)
       /\ Len(sl) > 0 => sl[Len(sl)].lo + Len(sl[Len(sl)].y) = Len(y)

\* C23: batch dispatch is a correct partition: whenever Position.track has
\* compiled the references of a frame, and for every frames list and window
\* count per region Position.segment can compile references for, the slices
\* handed to the regions are contiguous, disjoint, cover the batch and give
\* each (region, frame) the outputs of its own inputs in order; a region
\* that submitted no tracking input has no reference and gets no slice.
C23_DispatchPartition ==
    /\ pc = "trk_out"
       => /\ PartitionOf(references)
          /\ \A k \in 1..Len(references) : references[k].n > 0
          /\ \A k, m \in 1..Len(references) :
                k < m => references[k].r < references[m].r
    /\ \A F \in SegLists : \A nw \in [1..NumROIs -> 1..MaxCells] :
          PartitionOf(SegRefs(F, NumROIs, nw))

\* both regions submitted tracking inputs, two then one, and the dispatch
\* of the frame is done
C23_Witness ==
    /\ pc = "trk_out"
    /\ ri > Len(references)
    /\ Len(references) = 2
    /\ references[1].n = 2
    /\ references[2].n = 1
    /\ obs.op = "pto"
    /\ obs.kind = "ok"


\* C24: when Position.track has processed frame f (inputs compiled and
\* outputs dispatched for every region), every region's lineage has a list
\* for frame f: its per-frame sequence has length at least f + 1.
C24_ListForTrackedFrame ==
    (pc = "trk_out" /\ ri > Len(references) /\ fi <= Len(frames))
    => \A r \in 1..Len(rois) :
          Len(rois[r].lineage.cellnumbers) >= frames[fi] + 1


\* C25: after any sequence of pre-processing calls on a position, its region
\* list holds exactly one ROI per detected bounding box, without duplicates,
\* the ROI at index i carrying number i.
C25_OneRoiPerBox ==
    (preprocessed = "True" /\ ~cleared)
    => /\ Len(rois) = NumROIs
       /\ \A i \in 1..Len(rois) : rois[i].roi_nb = i

\* C26: Pipeline.preprocess(positions=P, references=None) pre-processes
\* exactly the positions listed in P (all of them when positions is None)
\* and completes without error.
C26_PreprocessListed ==
    obs.op = "ppre" => (obs.kind = "none" /\ ppos.done = ppos.P)

====
